---- MODULE Spec2Model ----
(***************************************************************************)
(* Model of the hydra control plane's node controller: the Dispatcher      *)
(* (main.rs, update), Node::add_player, Node::add_transaction,             *)
(* NodeStats::calculate_stats / update_stats / join and the parsing of a   *)
(* ConnectionInfo (model/node.rs).                                         *)
(***************************************************************************)
EXTENDS Integers, Sequences, FiniteSets, TLC

\* ------------------------------------------------------------------ bounds
MaxEvents == 4      \* events pushed onto the channel in one behaviour
MaxQueue == 1       \* events waiting in the channel at one time
MaxPlayers == 1     \* players on the rosters of all nodes together
MaxRoster == 2      \* roster length when a single transaction is validated
MaxOutputs == 2     \* outputs of a validated transaction
MaxConfirmed == 1   \* confirmations already folded into a ledger that is joined
MaxPieces == 5      \* pieces an address string is put together from

\* ------------------------------------------------------------- value sets
Registered == {"n1:4001", "n2:4001"}      \* authorities of the registry's nodes
Unregistered == "n3:4001"                 \* a listener's authority that matches no node
HeadIds == {"h1", "h2"}
TxIds == {"t1", "t2"}
Pkhs == {"p1", "p2"}
JoiningPkhs == {"p1"}                     \* players the presentation layer adds

\* Option<T> is a sequence of length at most one.
None == <<>>
Some(x) == <<x>>

\* ---------------------------------------------------------------- records
\* GameState decoded from an inline datum: admin identity and game counters.
GameStateAt(p, l) ==
  [admin |-> p, kills |-> l, items |-> l, secrets |-> l \div 2, play_time |-> 2 * l]

NoDatum == [kind |-> "None", cbor_ok |-> FALSE, gs_ok |-> FALSE,
            game_state |-> GameStateAt("p1", 0)]
HashDatum == [NoDatum EXCEPT !.kind = "Hash"]
BadCborDatum == [NoDatum EXCEPT !.kind = "Data"]
NotGameStateDatum == [NoDatum EXCEPT !.kind = "Data", !.cbor_ok = TRUE]
InlineDatum(p, l) == [kind |-> "Data", cbor_ok |-> TRUE, gs_ok |-> TRUE,
                      game_state |-> GameStateAt(p, l)]

\* One transaction output: its format, where it is addressed, its datum.
Output(f, a, d) == [format |-> f, address |-> a, datum |-> d]

\* The bytes of a transaction, by what decoding them yields.
Cbor(dec, bab, outs, n) == [decodes |-> dec, babbage |-> bab, outputs |-> outs, len |-> n]

TxValid(id, c) == [tx_id |-> id, cbor |-> c]

StateUpdate(b, k, i, s, p) ==
  [bytes |-> b, kills |-> k, items |-> i, secrets |-> s, play_time |-> p]

Player(p) == [pkh |-> p, game_state |-> None]

\* NodeStats::new
NewNodeStats(persisted) ==
  [persisted |-> persisted, transactions |-> 0, bytes |-> 0, kills |-> 0,
   items |-> 0, secrets |-> 0, play_time |-> 0, pending_transactions |-> <<>>]

\* Node::try_new: no head id, an empty roster, a fresh ledger.
NewNode(persisted) ==
  [head_id |-> None, players |-> <<>>, stats |-> NewNodeStats(persisted)]

\* ------------------------------------------------------------ StatsLedger
\* HashMap::remove on pending_transactions
MapRemove(m, k) == [x \in DOMAIN m \ {k} |-> m[x]]
\* MapInsert keeping the entry a key already has (entry().or_insert()).
MapInsertKeep(m, k, v) == [x \in DOMAIN m \cup {k} |-> IF x \in DOMAIN m THEN m[x] ELSE v]

\* HashMap::insert on pending_transactions: the value of an existing key is replaced
MapInsert(m, k, v) == [x \in DOMAIN m \cup {k} |-> IF x = k THEN v ELSE m[x]]
\* HashMap::extend: the entries of o replace those of m on a common key
MapExtend(m, o) == [x \in DOMAIN m \cup DOMAIN o |-> IF x \in DOMAIN o THEN o[x] ELSE m[x]]

update_stats(stats, state_change) ==
  [stats EXCEPT !.transactions = @ + 1,
                !.bytes = @ + state_change.bytes,
                !.kills = @ + state_change.kills,
                !.items = @ + state_change.items,
                !.secrets = @ + state_change.secrets,
                !.play_time = @ + state_change.play_time]

\* confirm_one counting a confirmed id that has no pending entry.
confirm_one_count_unknown(stats, tx_id) ==
  IF tx_id \in DOMAIN stats.pending_transactions
    THEN update_stats([stats EXCEPT !.pending_transactions = MapRemove(@, tx_id)],
                      stats.pending_transactions[tx_id])
    ELSE [stats EXCEPT !.transactions = @ + 1]

\* confirm_one reading the pending entry without removing it.
confirm_one_keep(stats, tx_id) ==
  IF tx_id \in DOMAIN stats.pending_transactions
    THEN update_stats(stats, stats.pending_transactions[tx_id])
    ELSE stats

\* One iteration of calculate_stats' loop.
confirm_one(stats, tx_id) ==
  IF tx_id \in DOMAIN stats.pending_transactions
    THEN update_stats([stats EXCEPT !.pending_transactions = MapRemove(@, tx_id)],
                      stats.pending_transactions[tx_id])
    ELSE stats

RECURSIVE calculate_stats(_, _)
calculate_stats(stats, confirmed_txs) ==
  IF confirmed_txs = <<>> THEN stats
  ELSE calculate_stats(confirm_one(stats, Head(confirmed_txs)), Tail(confirmed_txs))

\* join keeping self's entry on a key both pending maps hold.
join_left_bias(self, other) ==
  [persisted |-> self.persisted /\ other.persisted,
   transactions |-> self.transactions + other.transactions,
   bytes |-> self.bytes + other.bytes,
   kills |-> self.kills + other.kills,
   items |-> self.items + other.items,
   secrets |-> self.secrets + other.secrets,
   play_time |-> self.play_time + other.play_time,
   pending_transactions |-> MapExtend(other.pending_transactions, self.pending_transactions)]

join(self, other) ==
  [persisted |-> self.persisted /\ other.persisted,
   transactions |-> self.transactions + other.transactions,
   bytes |-> self.bytes + other.bytes,
   kills |-> self.kills + other.kills,
   items |-> self.items + other.items,
   secrets |-> self.secrets + other.secrets,
   play_time |-> self.play_time + other.play_time,
   pending_transactions |-> MapExtend(self.pending_transactions, other.pending_transactions)]

\* --------------------------------------------------- TransactionValidator
\* The filter of add_transaction: a post-Alonzo output whose address decodes
\* and whose bech32 form equals SCRIPT_ADDRESS.
IsScriptOutput(output) ==
  /\ output.format = "PostAlonzo"
  /\ output.address # "malformed"
  /\ output.address = "script"

\* Index of the first player whose pkh is the admin, 0 when there is none.
FindPlayer(players, admin) ==
  IF \E i \in 1..Len(players) : players[i].pkh = admin
    THEN CHOOSE i \in 1..Len(players) :
           /\ players[i].pkh = admin
           /\ \A j \in 1..(i - 1) : players[j].pkh # admin
    ELSE 0

\* Player::generate_state_update: the delta between the decoded game state
\* and the player's baseline, plus the byte size; the baseline advances.
generate_state_update(player, byte_count, game_state) ==
  LET old == IF player.game_state = None THEN GameStateAt(player.pkh, 0)
             ELSE player.game_state[1]
  IN [update |-> StateUpdate(byte_count,
                             game_state.kills - old.kills,
                             game_state.items - old.items,
                             game_state.secrets - old.secrets,
                             game_state.play_time - old.play_time),
      player |-> [player EXCEPT !.game_state = Some(game_state)]]

Err(node, e) == [ok |-> FALSE, err |-> e, node |-> node]

\* The filter's address.to_bech32().unwrap(): an address that from_bytes
\* decodes but that has no bech32 form (a Byron address) makes it panic.
Unwrapped == "called Result::unwrap() on an Err value"
FilterPanics(outputs) ==
  \E i \in 1..Len(outputs) :
    outputs[i].format = "PostAlonzo" /\ outputs[i].address = "byron"

\* add_transaction inserting the pending entry before the player lookup.
add_transaction_insert_first(node, transaction) ==
  LET tx == transaction.cbor
      script_outputs == SelectSeq(tx.outputs, IsScriptOutput)
  IN IF ~tx.decodes THEN Err(node, "Failed to decode transaction")
     ELSE IF ~tx.babbage THEN Err(node, "Invalid babbage era tx")
     ELSE IF FilterPanics(tx.outputs) THEN Err(node, Unwrapped)
     ELSE IF Len(script_outputs) # 1 THEN Err(node, "Invalid number of script outputs")
     ELSE LET datum == script_outputs[1].datum
          IN IF datum.kind = "None" THEN Err(node, "No datum found")
             ELSE IF datum.kind # "Data" THEN Err(node, "No inline datum found")
             ELSE IF ~datum.cbor_ok THEN Err(node, "Failed to deserialize datum")
             ELSE IF ~datum.gs_ok THEN Err(node, "Invalid game state datum")
             ELSE LET game_state == datum.game_state
                      i == FindPlayer(node.players, game_state.admin)
                      g == generate_state_update(Player(game_state.admin), tx.len, game_state)
                      inserted == [node EXCEPT !.stats.pending_transactions =
                                     MapInsert(@, transaction.tx_id, g.update)]
                  IN IF i = 0 THEN Err(inserted, "No player found")
                     ELSE [ok |-> TRUE, err |-> "",
                           node |-> [inserted EXCEPT !.players[i].game_state = Some(game_state)]]

\* add_transaction folding the update into the counters as it inserts it.
add_transaction_counts_now(node, transaction) ==
  LET tx == transaction.cbor
      script_outputs == SelectSeq(tx.outputs, IsScriptOutput)
  IN IF ~tx.decodes THEN Err(node, "Failed to decode transaction")
     ELSE IF ~tx.babbage THEN Err(node, "Invalid babbage era tx")
     ELSE IF FilterPanics(tx.outputs) THEN Err(node, Unwrapped)
     ELSE IF Len(script_outputs) # 1 THEN Err(node, "Invalid number of script outputs")
     ELSE LET script_output == script_outputs[1]
              datum == script_output.datum
          IN IF script_output.format # "PostAlonzo" THEN Err(node, "Invalid output type")
             ELSE IF datum.kind = "None" THEN Err(node, "No datum found")
             ELSE IF datum.kind # "Data" THEN Err(node, "No inline datum found")
             ELSE IF ~datum.cbor_ok THEN Err(node, "Failed to deserialize datum")
             ELSE IF ~datum.gs_ok THEN Err(node, "Invalid game state datum")
             ELSE LET game_state == datum.game_state
                      i == FindPlayer(node.players, game_state.admin)
                  IN IF i = 0 THEN Err(node, "No player found")
                     ELSE LET g == generate_state_update(node.players[i], tx.len, game_state)
                          IN [ok |-> TRUE, err |-> "",
                              node |-> [node EXCEPT
                                 !.players[i] = g.player,
                                 !.stats = update_stats(
                                    [@ EXCEPT !.pending_transactions =
                                       MapInsert(@, transaction.tx_id, g.update)],
                                    g.update)]]

add_transaction(node, transaction) ==
  LET tx == transaction.cbor
      script_outputs == SelectSeq(tx.outputs, IsScriptOutput)
  IN IF ~tx.decodes THEN Err(node, "Failed to decode transaction")
     ELSE IF ~tx.babbage THEN Err(node, "Invalid babbage era tx")
     ELSE IF FilterPanics(tx.outputs) THEN Err(node, Unwrapped)
     ELSE IF Len(script_outputs) # 1 THEN Err(node, "Invalid number of script outputs")
     ELSE LET script_output == script_outputs[1]
              datum == script_output.datum
          IN IF script_output.format # "PostAlonzo" THEN Err(node, "Invalid output type")
             ELSE IF datum.kind = "None" THEN Err(node, "No datum found")
             ELSE IF datum.kind # "Data" THEN Err(node, "No inline datum found")
             ELSE IF ~datum.cbor_ok THEN Err(node, "Failed to deserialize datum")
             ELSE IF ~datum.gs_ok THEN Err(node, "Invalid game state datum")
             ELSE LET game_state == datum.game_state
                      i == FindPlayer(node.players, game_state.admin)
                  IN IF i = 0 THEN Err(node, "No player found")
                     ELSE LET g == generate_state_update(node.players[i], tx.len, game_state)
                          IN [ok |-> TRUE, err |-> "",
                              node |-> [node EXCEPT
                                 !.players[i] = g.player,
                                 !.stats.pending_transactions =
                                    MapInsert(@, transaction.tx_id, g.update)]]

\* ------------------------------------------------------------ the channel
\* HydraEventMessage, one record shape for every kind.
Message(k, h, ids, t) == [kind |-> k, head_id |-> h, confirmed_transactions |-> ids, tx |-> t]

NoTx == TxValid("t1", Cbor(FALSE, FALSE, <<>>, 0))
HeadIsOpen(h) == Message("HeadIsOpen", h, <<>>, NoTx)
SnapshotConfirmed(ids) == Message("SnapshotConfirmed", "", ids, NoTx)
TxValidMsg(t) == Message("TxValid", "", <<>>, t)
OtherMsg == Message("Greetings", "", <<>>, NoTx)

\* HydraData
Received(m, a) == [type |-> "Received", message |-> m, authority |-> a]
SendData == [type |-> "Send", message |-> OtherMsg, authority |-> ""]

\* A game-state transaction as the contract shapes it: one escrow output.
GameTx(p, l) ==
  Cbor(TRUE, TRUE, <<Output("PostAlonzo", "script", InlineDatum(p, l))>>, 2 + l)
OneOutputTx(d) == Cbor(TRUE, TRUE, <<Output("PostAlonzo", "script", d)>>, 2)

\* The transactions the heads announce in the Dispatcher's specification:
\* two under the same id, one under another id.
AnnouncedTxs ==
  { TxValid("t1", GameTx("p1", 1)),
    TxValid("t1", GameTx("p1", 2)),
    TxValid("t2", GameTx("p1", 2)) }

SnapshotLists == { <<"t1">>, <<"t1", "t1">>, <<"t1", "t2">> }

Messages ==
  {HeadIsOpen(h) : h \in HeadIds}
    \cup {SnapshotConfirmed(ids) : ids \in SnapshotLists}
    \cup {TxValidMsg(t) : t \in AnnouncedTxs}
    \cup {OtherMsg}

\* What the listeners push: every message for the first node, a HeadIsOpen
\* and a TxValid for the second, a HeadIsOpen for an authority that matches
\* no node of the registry; and an outbound Send.
Events ==
  {Received(m, "n1:4001") : m \in Messages}
    \cup {Received(m, "n2:4001") :
            m \in {HeadIsOpen("h1"), TxValidMsg(TxValid("t1", GameTx("p1", 1)))}}
    \cup {Received(HeadIsOpen("h1"), Unregistered)}
    \cup {SendData}

\* The game states a transaction's outputs carry.
TxGameStates(cbor) ==
  {cbor.outputs[i].datum.game_state : i \in
     {j \in 1..Len(cbor.outputs) : /\ cbor.outputs[j].datum.kind = "Data"
                                   /\ cbor.outputs[j].datum.gs_ok}}

\* ------------------------------------------------------------------ state
VARIABLES nodes,      \* authority -> Node, the registry's collection
          chan,       \* the mpsc channel's queue
          closed,     \* every sender of the channel has been dropped
          running,    \* the Dispatcher's loop has not broken out
          outbox,     \* authority -> messages handed to Node::send
          level,      \* pkh -> highest game-state level announced so far
          pushed,     \* number of events pushed so far
          accepted,   \* authority -> tx ids add_transaction returned Ok for
          last        \* the last operation and its outcome

\* The inputs and results of the two pure operations checked on their own.
VARIABLES ledger_a,   \* join's self
          ledger_b,   \* join's other
          joined,     \* join's result, once computed
          uri,        \* the string handed to ConnectionInfo::try_from
          parsed      \* try_from's result, once computed

\* The registry's reader/writer lock and the tasks that take it.
VARIABLES writers,    \* the tasks holding the write guard
          readers,    \* the tasks holding a read guard
          pc,         \* the Dispatcher's position in its loop
          cur,        \* the event the Dispatcher has dequeued
          todo,       \* the confirmed ids calculate_stats has still to visit
          cmd         \* the add_player command in progress

registry == <<nodes, chan, closed, running, outbox, level, pushed, accepted, last>>
pure == <<ledger_a, ledger_b, joined, uri, parsed>>
tasks == <<writers, readers, pc, cur, todo, cmd>>
vars == <<registry, pure, tasks>>

Op(o, a, k, r) == [op |-> o, authority |-> a, kind |-> k, res |-> r]

PureIdle ==
  /\ ledger_a = NewNodeStats(TRUE)
  /\ ledger_b = NewNodeStats(FALSE)
  /\ joined = None
  /\ uri = <<>>
  /\ parsed = None

RegistryInit ==
  /\ nodes = [a \in Registered |-> NewNode(a = "n1:4001")]
  /\ chan = <<>>
  /\ closed = FALSE
  /\ running = TRUE
  /\ outbox = [a \in Registered |-> <<>>]
  /\ level = [p \in Pkhs |-> 0]
  /\ pushed = 0
  /\ accepted = [a \in Registered |-> {}]
  /\ last = Op("init", "", "", "")

\* No guard is held, the Dispatcher waits on recv, no command is in progress.
NoEvent == [type |-> "None", message |-> OtherMsg, authority |-> ""]
NoCommand == [pc |-> "idle", node |-> "", player |-> ""]

TasksIdle ==
  /\ writers = {}
  /\ readers = {}
  /\ pc = "recv"
  /\ cur = NoEvent
  /\ todo = <<>>
  /\ cmd = NoCommand

Init == RegistryInit /\ PureIdle /\ TasksIdle

\* ---------------------------------------------------------------- listener
\* A listener task (or any holder of a sender) pushes one event.
Push(e) ==
  /\ ~closed
  /\ pushed < MaxEvents
  /\ Len(chan) < MaxQueue
  /\ \A g \in TxGameStates(e.message.tx.cbor) : g.kills >= level[g.admin]
  /\ chan' = Append(chan, e)
  /\ pushed' = pushed + 1
  /\ level' = [p \in Pkhs |->
                 IF \E g \in TxGameStates(e.message.tx.cbor) : g.admin = p
                   THEN (CHOOSE g \in TxGameStates(e.message.tx.cbor) :
                           /\ g.admin = p
                           /\ \A h \in TxGameStates(e.message.tx.cbor) :
                                h.admin = p => h.kills <= g.kills).kills
                   ELSE level[p]]
  /\ last' = Op("push", e.authority, e.message.kind, "")
  /\ UNCHANGED <<nodes, closed, running, outbox, accepted, pure, tasks>>

\* The last sender is dropped.
Close ==
  /\ ~closed
  /\ closed' = TRUE
  /\ last' = Op("close", "", "", "")
  /\ UNCHANGED <<nodes, chan, running, outbox, level, pushed, accepted, pure, tasks>>

\* -------------------------------------------------------------- Dispatcher
\* FindNode falling back to the first node when none matches.
FindNodeOrFirst(authority) ==
  IF authority \in Registered THEN Some(authority) ELSE Some("n1:4001")

\* FindNode taking the first node of the registry for any registered authority.
FindNodeFirst(authority) ==
  IF authority \in Registered THEN Some("n1:4001") ELSE None

\* nodes.iter_mut().find(|n| n.local_connection.to_authority() == authority)
FindNode(authority) == IF authority \in Registered THEN Some(authority) ELSE None

\* ApplyMessage whose HeadIsOpen arm lacks the head_id.is_none() guard.
ApplyMessageOverwrite(node, message) ==
  IF message.kind = "HeadIsOpen"
    THEN [node |-> [node EXCEPT !.head_id = Some(message.head_id)], res |-> "Ok"]
  ELSE IF message.kind = "SnapshotConfirmed"
    THEN [node |-> [node EXCEPT !.stats =
                      calculate_stats(@, message.confirmed_transactions)],
          res |-> "Ok"]
  ELSE IF message.kind = "TxValid"
    THEN LET r == add_transaction(node, message.tx)
         IN [node |-> r.node, res |-> IF r.ok THEN "Ok" ELSE r.err]
  ELSE [node |-> node, res |-> "Ignored"]

\* The match on the message of a Received event whose node was found.
ApplyMessage(node, message) ==
  IF message.kind = "HeadIsOpen" /\ node.head_id = None
    THEN [node |-> [node EXCEPT !.head_id = Some(message.head_id)], res |-> "Ok"]
  ELSE IF message.kind = "SnapshotConfirmed"
    THEN [node |-> [node EXCEPT !.stats =
                      calculate_stats(@, message.confirmed_transactions)],
          res |-> "Ok"]
  ELSE IF message.kind = "TxValid"
    THEN LET r == add_transaction(node, message.tx)
         IN [node |-> r.node, res |-> IF r.ok THEN "Ok" ELSE r.err]
  ELSE [node |-> node, res |-> "Ignored"]

\* Dispatch taking the newest event of the queue instead of the oldest.
DispatchNewest ==
  /\ running
  /\ chan # <<>>
  /\ LET e == chan[Len(chan)]
         found == FindNode(e.authority)
     IN /\ chan' = SubSeq(chan, 1, Len(chan) - 1)
        /\ IF e.type = "Send"
             THEN /\ last' = Op("dispatch", "", "Send", "Ignored")
                  /\ UNCHANGED <<nodes, accepted, running>>
           ELSE IF found = None
             THEN /\ last' = Op("dispatch", e.authority, e.message.kind, "NodeNotFound")
                  /\ UNCHANGED <<nodes, accepted, running>>
           ELSE LET n == found[1]
                    r == ApplyMessage(nodes[n], e.message)
                IN /\ nodes' = [nodes EXCEPT ![n] = r.node]
                   /\ accepted' = IF e.message.kind = "TxValid" /\ r.res = "Ok"
                                    THEN [accepted EXCEPT ![n] = @ \cup {e.message.tx.tx_id}]
                                    ELSE accepted
                   /\ last' = Op("dispatch", n, e.message.kind, r.res)
                   /\ running' = (r.res # Unwrapped)
  /\ UNCHANGED <<closed, outbox, level, pushed, pure, tasks>>

\* update: one turn of the loop on a received event. A panic of the handler
\* ends the task.
Dispatch ==
  /\ running
  /\ chan # <<>>
  /\ LET e == Head(chan)
         found == FindNode(e.authority)
     IN /\ chan' = Tail(chan)
        /\ IF e.type = "Send"
             THEN /\ last' = Op("dispatch", "", "Send", "Ignored")
                  /\ UNCHANGED <<nodes, accepted, running>>
           ELSE IF found = None
             THEN /\ last' = Op("dispatch", e.authority, e.message.kind, "NodeNotFound")
                  /\ UNCHANGED <<nodes, accepted, running>>
           ELSE LET n == found[1]
                    r == ApplyMessage(nodes[n], e.message)
                IN /\ nodes' = [nodes EXCEPT ![n] = r.node]
                   /\ accepted' = IF e.message.kind = "TxValid" /\ r.res = "Ok"
                                    THEN [accepted EXCEPT ![n] = @ \cup {e.message.tx.tx_id}]
                                    ELSE accepted
                   /\ last' = Op("dispatch", n, e.message.kind, r.res)
                   /\ running' = (r.res # Unwrapped)
  /\ UNCHANGED <<closed, outbox, level, pushed, pure, tasks>>

\* update: rx.recv() yields None once the channel is closed and drained.
Disconnected ==
  /\ running
  /\ chan = <<>>
  /\ closed
  /\ running' = FALSE
  /\ last' = Op("dispatch", "", "", "mpsc disconnected")
  /\ UNCHANGED <<nodes, chan, closed, outbox, level, pushed, accepted, pure, tasks>>

\* --------------------------------------------------------------- add_player
AddPlayerOutcomes == {"Ok", "Failed to fetch utxos", "build_new_game_state", "NewTx::new"}

\* add_player appending to the roster before the new-game transaction is built.
add_player_push_first(node, sent, player, outcome) ==
  IF outcome = "Failed to fetch utxos" THEN [ok |-> FALSE, node |-> node, sent |-> sent]
  ELSE IF outcome # "Ok"
    THEN [ok |-> FALSE, node |-> [node EXCEPT !.players = Append(@, player)], sent |-> sent]
  ELSE [ok |-> TRUE,
        node |-> [node EXCEPT !.players = Append(@, player)],
        sent |-> Append(sent, player.pkh)]

\* Node::add_player: fetch the snapshot, build the new-game transaction,
\* encode the NewTx message (each may fail and return early), then append
\* the player and hand the message to send.
add_player(node, sent, player, outcome) ==
  IF outcome # "Ok" THEN [ok |-> FALSE, node |-> node, sent |-> sent]
  ELSE [ok |-> TRUE,
        node |-> [node EXCEPT !.players = Append(@, player)],
        sent |-> Append(sent, player.pkh)]

RECURSIVE SumLen(_)
SumLen(S) == IF S = {} THEN 0
             ELSE LET a == CHOOSE x \in S : TRUE
                  IN Len(nodes[a].players) + SumLen(S \ {a})
RosterTotal == SumLen(Registered)

AddPlayer(n, p, outcome) ==
  /\ RosterTotal < MaxPlayers
  /\ LET r == add_player(nodes[n], outbox[n], Player(p), outcome)
     IN /\ nodes' = [nodes EXCEPT ![n] = r.node]
        /\ outbox' = [outbox EXCEPT ![n] = r.sent]
  /\ last' = Op("add_player", n, p, outcome)
  /\ UNCHANGED <<chan, closed, running, level, pushed, accepted, pure, tasks>>

Next ==
  \/ \E e \in Events : Push(e)
  \/ Close
  \/ Dispatch
  \/ Disconnected
  \/ \E n \in Registered, p \in JoiningPkhs, o \in AddPlayerOutcomes : AddPlayer(n, p, o)

Spec == Init /\ [][Next]_vars

\* =================================================================== claims
\* The step is the Dispatcher handling a Received event of kind k whose
\* authority is a.
HandlesReceived(a, k) ==
  /\ running
  /\ chan # <<>>
  /\ Head(chan).type = "Received"
  /\ Head(chan).authority = a
  /\ Head(chan).message.kind = k
  /\ chan' = Tail(chan)
  /\ last'.op = "dispatch"

SeqRange(q) == {q[i] : i \in 1..Len(q)}

\* C1: for every node and every sequence of TxValid and SnapshotConfirmed
\* events, the node's transactions counter never exceeds the number of
\* distinct transaction ids add_transaction accepted on that node.
C1_NoDoubleCounting ==
  \A n \in Registered : nodes[n].stats.transactions <= Cardinality(accepted[n])

\* C2: once a node's head_id is assigned it keeps that value in every later
\* step, and a later HeadIsOpen for that node (same or different head id)
\* leaves the whole registry unchanged.
C2_HeadIdSetOnce ==
  [][\A n \in Registered :
       /\ nodes[n].head_id # None => nodes'[n].head_id = nodes[n].head_id
       /\ (HandlesReceived(n, "HeadIsOpen") /\ nodes[n].head_id # None)
            => nodes' = nodes]_vars

\* C2 witness: a HeadIsOpen was handled on a node whose head id was already
\* set, and was ignored.
C2_Witness ==
  /\ last.op = "dispatch" /\ last.kind = "HeadIsOpen" /\ last.res = "Ignored"
  /\ last.authority \in Registered
  /\ nodes[last.authority].head_id # None

\* C3: confirming ids that have no pending entry changes nothing and does not
\* stop the Dispatcher; an id repeated inside one list is folded once; and
\* applying the same confirmation again to the resulting ledger changes
\* nothing.
C3_ConfirmUnknownIsNoOp ==
  [][\A n \in Registered :
       HandlesReceived(n, "SnapshotConfirmed") =>
         LET ids == Head(chan).message.confirmed_transactions
             hit == SeqRange(ids) \cap DOMAIN nodes[n].stats.pending_transactions
         IN /\ running'
            /\ hit = {} => nodes' = nodes
            /\ nodes'[n].stats.transactions
                 = nodes[n].stats.transactions + Cardinality(hit)
            /\ DOMAIN nodes'[n].stats.pending_transactions
                 = DOMAIN nodes[n].stats.pending_transactions \ hit
            /\ calculate_stats(nodes'[n].stats, ids) = nodes'[n].stats]_vars

\* C3 witness: a SnapshotConfirmed was handled on a node that holds a pending
\* entry (under another id) and found no match: nothing has been folded.
C3_Witness ==
  /\ last.op = "dispatch" /\ last.kind = "SnapshotConfirmed"
  /\ last.authority \in Registered
  /\ nodes[last.authority].stats.transactions = 0
  /\ DOMAIN nodes[last.authority].stats.pending_transactions # {}
  /\ running

\* C4: a Received event whose authority matches no registered node changes no
\* node, leaves the Dispatcher running and the rest of the queue in place.
C4_UnknownAuthorityIsNoOp ==
  [][(/\ running /\ chan # <<>>
      /\ Head(chan).type = "Received"
      /\ Head(chan).authority \notin Registered
      /\ chan' = Tail(chan))
       => /\ nodes' = nodes
          /\ outbox' = outbox
          /\ running'
          /\ last'.res = "NodeNotFound"]_vars

\* C4 witness: an event of an unregistered authority was handled after a node
\* had already been changed, and the Dispatcher is still running.
C4_Witness ==
  /\ last.op = "dispatch" /\ last.res = "NodeNotFound"
  /\ last.authority \notin Registered
  /\ running
  /\ \E n \in Registered : nodes[n].head_id # None

\* C10: add_player that fails at the snapshot fetch, at the construction of
\* the new-game transaction or at the encoding of the message leaves the
\* roster and the outbound messages as they were; when every step succeeds
\* the player is appended and one Send is issued.
C10_AddPlayerNoPartialState ==
  [][last'.op = "add_player" =>
       LET n == last'.authority
       IN IF last'.res = "Ok"
            THEN /\ nodes'[n].players = Append(nodes[n].players, Player(last'.kind))
                 /\ outbox'[n] = Append(outbox[n], last'.kind)
                 /\ \A m \in Registered \ {n} : nodes'[m] = nodes[m] /\ outbox'[m] = outbox[m]
            ELSE nodes' = nodes /\ outbox' = outbox]_vars

\* C10 witness: add_player failed while building the new-game transaction on
\* a node whose roster and outbox are empty.
C10_Witness ==
  /\ last.op = "add_player" /\ last.res = "build_new_game_state"
  /\ nodes[last.authority].players = <<>>
  /\ outbox[last.authority] = <<>>

\* ================================================= one validated transaction
\* Sequences over S of length at most k.
SeqsUpTo(S, k) == UNION {[1..n -> S] : n \in 0..k}

\* The outputs a decoded transaction may carry: legacy outputs (no inline
\* datum), post-Alonzo outputs at another, an undecodable or a Byron address, and
\* post-Alonzo outputs at the script address with every kind of datum.
TxOutputs ==
  { Output("Legacy", "script", HashDatum),
    Output("Legacy", "script", NoDatum),
    Output("Legacy", "other", NoDatum),
    Output("PostAlonzo", "other", InlineDatum("p1", 1)),
    Output("PostAlonzo", "malformed", NoDatum),
    Output("PostAlonzo", "byron", NoDatum) }
  \cup { Output("PostAlonzo", "script", d) :
           d \in { NoDatum, HashDatum, BadCborDatum, NotGameStateDatum,
                   InlineDatum("p1", 1), InlineDatum("p2", 1) } }

TxBytes ==
  { Cbor(FALSE, FALSE, <<>>, 1) }
    \cup { Cbor(TRUE, b, outs, 1 + Len(outs)) :
             b \in BOOLEAN, outs \in SeqsUpTo(TxOutputs, MaxOutputs) }

\* A node whose roster is the given players and which, when prior holds, has
\* already been through add_transaction of p1's first game transaction.
NodeWith(roster, prior) ==
  LET fresh == [NewNode(TRUE) EXCEPT
                  !.players = [i \in 1..Len(roster) |-> Player(roster[i])]]
  IN IF prior THEN add_transaction(fresh, TxValid("t1", GameTx("p1", 1))).node
     ELSE fresh

\* The registry holds such a node; its listener has pushed one TxValid and
\* then a HeadIsOpen.
InitTx ==
  \E roster \in SeqsUpTo(Pkhs, MaxRoster), prior \in BOOLEAN,
     id \in TxIds, cbor \in TxBytes :
    /\ nodes = [a \in Registered |->
                  IF a = "n1:4001" THEN NodeWith(roster, prior) ELSE NewNode(FALSE)]
    /\ chan = << Received(TxValidMsg(TxValid(id, cbor)), "n1:4001"),
                 Received(HeadIsOpen("h1"), "n1:4001") >>
    /\ closed = FALSE
    /\ running = TRUE
    /\ outbox = [a \in Registered |-> IF a = "n1:4001" THEN roster ELSE <<>>]
    /\ level = [p \in Pkhs |-> 1]
    /\ pushed = 2
    /\ accepted = [a \in Registered |->
                     IF a = "n1:4001" /\ prior /\ \E i \in 1..Len(roster) : roster[i] = "p1"
                       THEN {"t1"} ELSE {}]
    /\ last = Op("push", "n1:4001", "HeadIsOpen", "")
    /\ PureIdle
    /\ TasksIdle

NextTx == Dispatch

SpecTx == InitTx /\ [][NextTx]_vars

\* The validation steps of add_transaction, read off the transaction and the
\* roster: some step rejects the transaction.
Rejected(node, transaction) ==
  LET tx == transaction.cbor
      matching == {i \in 1..Len(tx.outputs) : IsScriptOutput(tx.outputs[i])}
  IN \/ ~tx.decodes
     \/ ~tx.babbage
     \/ Cardinality(matching) # 1
     \/ \E i \in matching :
          \/ tx.outputs[i].datum.kind # "Data"
          \/ ~tx.outputs[i].datum.cbor_ok
          \/ ~tx.outputs[i].datum.gs_ok
          \/ \A j \in 1..Len(node.players) :
               node.players[j].pkh # tx.outputs[i].datum.game_state.admin

AddressedToScript(tx) == {i \in 1..Len(tx.outputs) : tx.outputs[i].address = "script"}

\* C6: every decodable transaction with zero, or with two or more, outputs
\* addressed to the script address is rejected with the invalid-output-count
\* error and nothing is inserted into pending.
C6_RejectsUnlessOneScriptOutput ==
  [][\A n \in Registered :
       (/\ HandlesReceived(n, "TxValid")
        /\ Head(chan).message.tx.cbor.decodes
        /\ Head(chan).message.tx.cbor.babbage
        /\ Cardinality(AddressedToScript(Head(chan).message.tx.cbor)) # 1)
         => /\ last'.res = "Invalid number of script outputs"
            /\ nodes'[n].stats.pending_transactions
                 = nodes[n].stats.pending_transactions]_vars

\* C7: every transaction with exactly one output addressed to the script
\* address, whose datum is absent or a datum-hash reference, is rejected with
\* the missing-datum error, and nothing is inserted into pending.
C7_MissingDatumRejected ==
  [][\A n \in Registered :
       LET tx == Head(chan).message.tx.cbor
       IN (/\ HandlesReceived(n, "TxValid")
           /\ tx.decodes /\ tx.babbage
           /\ Cardinality(AddressedToScript(tx)) = 1
           /\ \A i \in AddressedToScript(tx) : tx.outputs[i].datum.kind \in {"None", "Hash"})
            => /\ last'.res \in {"No datum found", "No inline datum found"}
               /\ nodes'[n].stats.pending_transactions
                    = nodes[n].stats.pending_transactions]_vars

\* ====================================================== join of two ledgers
\* The state updates of p1's game transactions GameTx("p1", 1), GameTx("p1", 2).
Updates ==
  { generate_state_update(Player("p1"), GameTx("p1", l).len, GameStateAt("p1", l)).update :
      l \in 1..2 }

PendingMaps == UNION {[ids -> Updates] : ids \in SUBSET TxIds}

RECURSIVE FoldAll(_, _)
FoldAll(stats, updates) ==
  IF updates = <<>> THEN stats
  ELSE FoldAll(update_stats(stats, Head(updates)), Tail(updates))

\* The ledgers a node can hold: some confirmations folded, some entries pending.
Ledgers ==
  { FoldAll([NewNodeStats(p) EXCEPT !.pending_transactions = m], us) :
      p \in BOOLEAN, m \in PendingMaps, us \in SeqsUpTo(Updates, MaxConfirmed) }

InitJoin ==
  /\ RegistryInit
  /\ TasksIdle
  /\ ledger_a \in Ledgers
  /\ ledger_b \in Ledgers
  /\ joined = None
  /\ uri = <<>>
  /\ parsed = None

\* The aggregate view joins one ledger with another.
Join ==
  /\ joined = None
  /\ joined' = Some(join(ledger_a, ledger_b))
  /\ UNCHANGED <<registry, tasks, ledger_a, ledger_b, uri, parsed>>

NextJoin == Join

SpecJoin == InitJoin /\ [][NextJoin]_vars

\* C8: join(a, b) has each of the six counters equal to the sum of a's and
\* b's, persisted equal to a.persisted AND b.persisted, and pending equal to
\* the union of both maps with b's entry kept on a common key; a is not
\* modified.
C8_JoinIsPureCombination ==
  [][joined' # None =>
       LET j == joined'[1]
           pa == ledger_a.pending_transactions
           pb == ledger_b.pending_transactions
       IN /\ j.transactions = ledger_a.transactions + ledger_b.transactions
          /\ j.bytes = ledger_a.bytes + ledger_b.bytes
          /\ j.kills = ledger_a.kills + ledger_b.kills
          /\ j.items = ledger_a.items + ledger_b.items
          /\ j.secrets = ledger_a.secrets + ledger_b.secrets
          /\ j.play_time = ledger_a.play_time + ledger_b.play_time
          /\ j.persisted = (ledger_a.persisted /\ ledger_b.persisted)
          /\ DOMAIN j.pending_transactions = DOMAIN pa \cup DOMAIN pb
          /\ \A k \in DOMAIN pb : j.pending_transactions[k] = pb[k]
          /\ \A k \in DOMAIN pa \ DOMAIN pb : j.pending_transactions[k] = pa[k]
          /\ ledger_a' = ledger_a
          /\ ledger_b' = ledger_b]_vars

\* C8 witness: two ledgers with folded counters that hold different entries
\* under a common key have been joined.
C8_Witness ==
  /\ joined # None
  /\ ledger_a.transactions > 0 /\ ledger_b.transactions > 0
  /\ ledger_a.persisted /\ ~ledger_b.persisted
  /\ \E k \in DOMAIN ledger_a.pending_transactions \cap DOMAIN ledger_b.pending_transactions :
       ledger_a.pending_transactions[k] # ledger_b.pending_transactions[k]

\* ================================================== ConnectionInfo::try_from
\* A string is the sequence of its characters.
Colon == ":"
Slashes == <<"/", "/">>
Https == <<"h", "t", "t", "p", "s">>
Wss == <<"w", "s", "s">>
Ws == <<"w", "s">>

Digits == {"0", "1", "2", "3", "4", "5", "6", "7", "8", "9"}
DigitVal(c) ==
  CASE c = "0" -> 0 [] c = "1" -> 1 [] c = "2" -> 2 [] c = "3" -> 3 [] c = "4" -> 4
    [] c = "5" -> 5 [] c = "6" -> 6 [] c = "7" -> 7 [] c = "8" -> 8 [] c = "9" -> 9

\* str::split(':'): the pieces between the colons, empty pieces included.
RECURSIVE SplitColon(_)
SplitColon(s) ==
  IF \E i \in 1..Len(s) : s[i] = Colon
    THEN LET i == CHOOSE k \in 1..Len(s) :
                    s[k] = Colon /\ \A j \in 1..(k - 1) : s[j] # Colon
         IN <<SubSeq(s, 1, i - 1)>> \o SplitColon(SubSeq(s, i + 1, Len(s)))
    ELSE <<s>>

\* str::split("//").last(): matches are taken left to right without overlap;
\* the piece after the last match, the whole string when there is none.
RECURSIVE LastAfterSlashes(_)
LastAfterSlashes(s) ==
  IF \E i \in 1..(Len(s) - 1) : SubSeq(s, i, i + 1) = Slashes
    THEN LET i == CHOOSE k \in 1..(Len(s) - 1) :
                    /\ SubSeq(s, k, k + 1) = Slashes
                    /\ \A j \in 1..(k - 1) : SubSeq(s, j, j + 1) # Slashes
         IN LastAfterSlashes(SubSeq(s, i + 2, Len(s)))
    ELSE s

\* The digits of u32::MAX, 4294967295.
U32MaxDigits == <<4, 2, 9, 4, 9, 6, 7, 2, 9, 5>>

RECURSIVE StripZeros(_)
StripZeros(ds) == IF ds # <<>> /\ Head(ds) = 0 THEN StripZeros(Tail(ds)) ELSE ds

RECURSIVE LexLeq(_, _)
LexLeq(a, b) ==
  IF a = <<>> THEN TRUE
  ELSE IF Head(a) # Head(b) THEN Head(a) < Head(b)
  ELSE LexLeq(Tail(a), Tail(b))

RECURSIVE Horner(_, _)
Horner(ds, acc) == IF ds = <<>> THEN acc ELSE Horner(Tail(ds), 10 * acc + Head(ds))

\* str::parse::<u32>: an optional '+', then one or more decimal digits whose
\* value fits 32 bits.
ParseU32(s) ==
  LET body == IF s # <<>> /\ Head(s) = "+" /\ Len(s) > 1 THEN Tail(s) ELSE s
      ds == StripZeros([i \in 1..Len(body) |-> IF body[i] \in Digits THEN DigitVal(body[i]) ELSE 0])
  IN IF body = <<>> \/ \E i \in 1..Len(body) : body[i] \notin Digits
       THEN [ok |-> FALSE, value |-> 0]
     ELSE IF Len(ds) > 10 \/ (Len(ds) = 10 /\ ~LexLeq(ds, U32MaxDigits))
       THEN [ok |-> FALSE, value |-> 0]
     ELSE [ok |-> TRUE, value |-> Horner(ds, 0)]

ParseError(e) == [ok |-> FALSE, err |-> e, host |-> <<>>, port |-> 0, secure |-> FALSE]
ConnectionInfo(h, p, s) == [ok |-> TRUE, err |-> "", host |-> h, port |-> p, secure |-> s]

\* try_from with the secure flag of a three-token input cleared for wss.
try_from_https_only(value) ==
  LET parts == SplitColon(value)
  IN IF Len(parts) = 2
       THEN IF ~ParseU32(parts[2]).ok THEN ParseError("ParseIntError")
            ELSE ConnectionInfo(parts[1], ParseU32(parts[2]).value, TRUE)
     ELSE IF Len(parts) = 3
       THEN IF ~ParseU32(parts[3]).ok THEN ParseError("ParseIntError")
            ELSE ConnectionInfo(LastAfterSlashes(parts[2]), ParseU32(parts[3]).value,
                                parts[1] = Https)
     ELSE ParseError("Invalid uri")

\* impl TryFrom<String> for ConnectionInfo
try_from(value) ==
  LET parts == SplitColon(value)
  IN IF Len(parts) = 2
       THEN IF ~ParseU32(parts[2]).ok THEN ParseError("ParseIntError")
            ELSE ConnectionInfo(parts[1], ParseU32(parts[2]).value, TRUE)
     ELSE IF Len(parts) = 3
       THEN IF ~ParseU32(parts[3]).ok THEN ParseError("ParseIntError")
            ELSE ConnectionInfo(LastAfterSlashes(parts[2]), ParseU32(parts[3]).value,
                                parts[1] = Https \/ parts[1] = Wss)
     ELSE ParseError("Invalid uri")

\* The pieces address strings are put together from.
Pieces == { <<Colon>>, <<Colon, "/", "/">>, Slashes, <<"a">>, <<"1">>, Ws, Wss, Https }

RECURSIVE Concat(_)
Concat(ps) == IF ps = <<>> THEN <<>> ELSE Head(ps) \o Concat(Tail(ps))

Uris == {Concat(ps) : ps \in SeqsUpTo(Pieces, MaxPieces)}

InitParse ==
  /\ RegistryInit
  /\ TasksIdle
  /\ ledger_a = NewNodeStats(TRUE)
  /\ ledger_b = NewNodeStats(FALSE)
  /\ joined = None
  /\ uri \in Uris
  /\ parsed = None

\* Node::try_new converts the configured uri.
Parse ==
  /\ parsed = None
  /\ parsed' = Some(try_from(uri))
  /\ UNCHANGED <<registry, tasks, ledger_a, ledger_b, joined, uri>>

NextParse == Parse

SpecParse == InitParse /\ [][NextParse]_vars

\* The tokens of a string: one more than its colons, cut at each of them.
ColonsOf(s) == {i \in 1..Len(s) : s[i] = Colon}
TokenCount(s) == Cardinality(ColonsOf(s)) + 1
\* The k-th token of s (k at most TokenCount(s)).
Token(s, k) ==
  LET lo == IF k = 1 THEN 0
            ELSE CHOOSE i \in ColonsOf(s) : Cardinality({j \in ColonsOf(s) : j < i}) = k - 2
      hi == IF k = TokenCount(s) THEN Len(s) + 1
            ELSE CHOOSE i \in ColonsOf(s) : Cardinality({j \in ColonsOf(s) : j < i}) = k - 1
  IN SubSeq(s, lo + 1, hi - 1)

HasSlashes(s) == \E i \in 1..(Len(s) - 1) : SubSeq(s, i, i + 1) = Slashes
\* s with a leading "//" removed.
StripLeadingSlashes(s) ==
  IF Len(s) >= 2 /\ SubSeq(s, 1, 2) = Slashes THEN SubSeq(s, 3, Len(s)) ELSE s

\* C9 as stated: the outcome depends only on the token count; 2 tokens give
\* host, port and secure=true; 3 tokens give the host with its leading "//"
\* stripped, port, and secure exactly for https and wss; any other count is
\* an error.
C9_ParseByTokenCountOnly ==
  parsed # None =>
    LET r == parsed[1]
        n == TokenCount(uri)
    IN /\ n = 2 => r.ok /\ r.host = Token(uri, 1) /\ r.secure
       /\ n = 3 => /\ r.ok
                   /\ r.host = StripLeadingSlashes(Token(uri, 2))
                   /\ r.secure = (Token(uri, 1) \in {Https, Wss})
       /\ n \notin {2, 3} => ~r.ok

\* C9 amended: 2 tokens whose second is a u32 give host, port and
\* secure=true; 3 tokens whose third is a u32 give the port, secure exactly
\* for https and wss, and as host the last piece of the second token split on
\* "//" (the token itself when it holds no "//", the token without its leading
\* "//" when that is its only "//"); every other input, that is another token
\* count or a port token that is not a u32, is an error.
C9_ParseAmended ==
  parsed # None =>
    LET r == parsed[1]
        n == TokenCount(uri)
        port == ParseU32(Token(uri, n))
    IN IF n \in {2, 3} /\ port.ok
         THEN /\ r.ok
              /\ r.port = port.value
              /\ n = 2 => r.host = Token(uri, 1) /\ r.secure
              /\ n = 3 =>
                   LET t == Token(uri, 2)
                   IN /\ r.secure = (Token(uri, 1) \in {Https, Wss})
                      /\ ~HasSlashes(r.host)
                      /\ Len(r.host) <= Len(t)
                      /\ r.host = SubSeq(t, Len(t) - Len(r.host) + 1, Len(t))
                      /\ ~HasSlashes(t) => r.host = t
                      /\ HasSlashes(t) =>
                           SubSeq(t, Len(t) - Len(r.host) - 1, Len(t) - Len(r.host)) = Slashes
                      /\ ~HasSlashes(StripLeadingSlashes(t)) => r.host = StripLeadingSlashes(t)
         ELSE ~r.ok

\* C9 witness: "wss://a:1" has been parsed into a secure address of host a.
C9_Witness ==
  /\ uri = Wss \o <<Colon>> \o Slashes \o <<"a", Colon, "1">>
  /\ parsed # None
  /\ parsed[1].ok /\ parsed[1].secure /\ parsed[1].host = <<"a">> /\ parsed[1].port = 1

\* ============================================================= event order
\* The events that may wait in the channel together.
MaxBacklog == 2

\* The events the two listeners push while n1 has p1 on its roster.
OrderedEvents ==
  {Received(HeadIsOpen(h), a) : h \in HeadIds, a \in Registered}
    \cup {Received(TxValidMsg(t), "n1:4001") : t \in AnnouncedTxs}
    \cup {Received(SnapshotConfirmed(ids), "n1:4001") : ids \in {<<"t1">>, <<"t1", "t2">>}}

\* The event with the number of its push, which the Dispatcher never reads.
Stamp(e, k) ==
  [type |-> e.type, message |-> e.message, authority |-> e.authority, seq |-> k]

\* A listener pushes one event onto the unbounded channel.
PushStamped(e) ==
  /\ pushed < MaxEvents
  /\ Len(chan) < MaxBacklog
  /\ \A g \in TxGameStates(e.message.tx.cbor) : g.kills >= level[g.admin]
  /\ chan' = Append(chan, Stamp(e, pushed + 1))
  /\ pushed' = pushed + 1
  /\ level' = [p \in Pkhs |->
                 IF \E g \in TxGameStates(e.message.tx.cbor) : g.admin = p
                   THEN (CHOOSE g \in TxGameStates(e.message.tx.cbor) : g.admin = p).kills
                   ELSE level[p]]
  /\ last' = Op("push", e.authority, e.message.kind, "")
  /\ UNCHANGED <<nodes, closed, running, outbox, accepted, pure, tasks>>

InitOrder ==
  /\ nodes = [a \in Registered |->
                IF a = "n1:4001" THEN NodeWith(<<"p1">>, FALSE) ELSE NewNode(FALSE)]
  /\ chan = <<>>
  /\ closed = FALSE
  /\ running = TRUE
  /\ outbox = [a \in Registered |-> IF a = "n1:4001" THEN <<"p1">> ELSE <<>>]
  /\ level = [p \in Pkhs |-> 0]
  /\ pushed = 0
  /\ accepted = [a \in Registered |-> {}]
  /\ last = Op("add_player", "n1:4001", "p1", "Ok")
  /\ PureIdle
  /\ TasksIdle

NextOrder ==
  \/ \E e \in OrderedEvents : PushStamped(e)
  \/ Dispatch

SpecOrder == InitOrder /\ [][NextOrder]_vars

\* The queue without its k-th event.
RemoveAt(q, k) == SubSeq(q, 1, k - 1) \o SubSeq(q, k + 1, Len(q))

\* C11: whenever the Dispatcher handles an event, that event is the oldest
\* event of its listener still in the channel, whatever events of other
\* listeners lie around it, and its effect is applied to its node in the state
\* the earlier events of that listener left: the effects on one node follow
\* the order of the pushes.
C11_PerNodeOrder ==
  [][(last'.op = "dispatch" /\ Len(chan') < Len(chan)) =>
       \E k \in 1..Len(chan) :
         /\ chan' = RemoveAt(chan, k)
         /\ \A i \in 1..Len(chan) :
              chan[i].authority = chan[k].authority => chan[k].seq <= chan[i].seq
         /\ \A i \in 1..Len(chan') : \A j \in 1..Len(chan') :
              (i < j /\ chan'[i].authority = chan'[j].authority)
                => chan'[i].seq < chan'[j].seq
         /\ chan[k].authority \in Registered =>
              nodes'[chan[k].authority]
                = ApplyMessage(nodes[chan[k].authority], chan[k].message).node]_vars

\* C11 witness: n1's event was handled while a later event of n1 waits behind
\* it, after an event of n2 had been handled in between n1's pushes.
C11_Witness ==
  /\ last.op = "dispatch" /\ last.authority = "n1:4001"
  /\ chan # <<>>
  /\ Head(chan).authority = "n1:4001"
  /\ Head(chan).seq >= 3
  /\ nodes["n2:4001"].head_id # None
  /\ nodes["n1:4001"].head_id # None

\* ==================================================== the registry's lock
\* The tasks that take the lock: the Dispatcher, the new_game route (which
\* runs the add_player command) and the read-only routes.
Dispatcher == "update"
Command == "new_game"
ReadRoutes == {"heads", "global"}

\* The events pushed while the lock is watched.
LockEvents ==
  { Received(HeadIsOpen("h1"), "n1:4001"),
    Received(TxValidMsg(TxValid("t1", GameTx("p1", 1))), "n1:4001"),
    Received(SnapshotConfirmed(<<"t1", "t2">>), "n1:4001"),
    Received(HeadIsOpen("h1"), Unregistered),
    SendData }

\* rx.recv().await yields an event: a Send is dropped at once, a Received
\* goes on to state.state.write().await.
Recv ==
  /\ running
  /\ pc = "recv"
  /\ chan # <<>>
  /\ chan' = Tail(chan)
  /\ IF Head(chan).type = "Send"
       THEN /\ last' = Op("dispatch", "", "Send", "Ignored")
            /\ UNCHANGED <<pc, cur>>
       ELSE /\ pc' = "write"
            /\ cur' = Head(chan)
            /\ UNCHANGED last
  /\ UNCHANGED <<nodes, closed, running, outbox, level, pushed, accepted, pure,
                 writers, readers, todo, cmd>>

\* rx.recv().await yields None.
RecvClosed == pc = "recv" /\ Disconnected

\* AcquireWrite taking the guard as a reader does (read() for write()).
AcquireShared ==
  /\ running
  /\ pc = "write"
  /\ writers = {}
  /\ readers' = readers \cup {Dispatcher}
  /\ pc' = "locked"
  /\ todo' = IF cur.message.kind = "SnapshotConfirmed" /\ FindNode(cur.authority) # None
               THEN cur.message.confirmed_transactions ELSE <<>>
  /\ UNCHANGED <<registry, pure, writers, cur, cmd>>

\* state.state.write().await returns the write guard: no other guard is held.
AcquireWrite ==
  /\ running
  /\ pc = "write"
  /\ writers = {}
  /\ readers = {}
  /\ writers' = {Dispatcher}
  /\ pc' = "locked"
  /\ todo' = IF cur.message.kind = "SnapshotConfirmed" /\ FindNode(cur.authority) # None
               THEN cur.message.confirmed_transactions ELSE <<>>
  /\ UNCHANGED <<registry, pure, readers, cur, cmd>>

\* One iteration of calculate_stats' loop, under the guard.
FoldOne ==
  /\ running
  /\ pc = "locked"
  /\ todo # <<>>
  /\ nodes' = [nodes EXCEPT ![cur.authority].stats = confirm_one(@, Head(todo))]
  /\ todo' = Tail(todo)
  /\ UNCHANGED <<chan, closed, running, outbox, level, pushed, accepted, last, pure,
                 writers, readers, pc, cur, cmd>>

\* Finish keeping the guard when no node matches the authority.
FinishHoldOnMiss ==
  /\ running
  /\ pc = "locked"
  /\ todo = <<>>
  /\ LET found == FindNode(cur.authority)
     IN IF found = None
          THEN /\ last' = Op("dispatch", cur.authority, cur.message.kind, "NodeNotFound")
               /\ UNCHANGED <<nodes, accepted, running, writers, readers>>
        ELSE LET n == found[1]
                 r == IF cur.message.kind = "SnapshotConfirmed"
                        THEN [node |-> nodes[n], res |-> "Ok"]
                        ELSE ApplyMessage(nodes[n], cur.message)
             IN /\ nodes' = [nodes EXCEPT ![n] = r.node]
                /\ accepted' = IF cur.message.kind = "TxValid" /\ r.res = "Ok"
                                 THEN [accepted EXCEPT ![n] = @ \cup {cur.message.tx.tx_id}]
                                 ELSE accepted
                /\ last' = Op("dispatch", n, cur.message.kind, r.res)
                /\ running' = (r.res # Unwrapped)
                /\ writers' = writers \ {Dispatcher}
                /\ readers' = readers \ {Dispatcher}
  /\ pc' = "recv"
  /\ cur' = NoEvent
  /\ UNCHANGED <<chan, closed, outbox, level, pushed, pure, todo, cmd>>

\* The rest of the turn under the guard: the node lookup, the match on the
\* message (the confirmed ids are folded by then), and the drop of the guard
\* at the end of the arm, at `continue`, or while a panic unwinds.
Finish ==
  /\ running
  /\ pc = "locked"
  /\ todo = <<>>
  /\ LET found == FindNode(cur.authority)
     IN IF found = None
          THEN /\ last' = Op("dispatch", cur.authority, cur.message.kind, "NodeNotFound")
               /\ UNCHANGED <<nodes, accepted, running>>
        ELSE LET n == found[1]
                 r == IF cur.message.kind = "SnapshotConfirmed"
                        THEN [node |-> nodes[n], res |-> "Ok"]
                        ELSE ApplyMessage(nodes[n], cur.message)
             IN /\ nodes' = [nodes EXCEPT ![n] = r.node]
                /\ accepted' = IF cur.message.kind = "TxValid" /\ r.res = "Ok"
                                 THEN [accepted EXCEPT ![n] = @ \cup {cur.message.tx.tx_id}]
                                 ELSE accepted
                /\ last' = Op("dispatch", n, cur.message.kind, r.res)
                /\ running' = (r.res # Unwrapped)
  /\ writers' = writers \ {Dispatcher}
  /\ readers' = readers \ {Dispatcher}
  /\ pc' = "recv"
  /\ cur' = NoEvent
  /\ UNCHANGED <<chan, closed, outbox, level, pushed, pure, todo, cmd>>

\* A read-only route takes a read guard: no write guard is held.
ReadAcquire(r) ==
  /\ r \notin readers
  /\ writers = {}
  /\ readers' = readers \cup {r}
  /\ UNCHANGED <<registry, pure, writers, pc, cur, todo, cmd>>

\* The route has built its response and drops the guard.
ReadRelease(r) ==
  /\ r \in readers
  /\ readers' = readers \ {r}
  /\ UNCHANGED <<registry, pure, writers, pc, cur, todo, cmd>>

\* The new_game route reaches its node as &mut Node, which only the write
\* guard gives, and calls add_player, which starts with fetch_utxos().await.
CmdAcquire(n, p) ==
  /\ cmd = NoCommand
  /\ RosterTotal < MaxPlayers
  /\ writers = {}
  /\ readers = {}
  /\ writers' = {Command}
  /\ cmd' = [pc |-> "fetch", node |-> n, player |-> p]
  /\ UNCHANGED <<registry, pure, readers, pc, cur, todo>>

\* CmdFinish with an add_player that also forgets the node's head.
CmdFinishNewHead(outcome) ==
  /\ cmd.pc = "fetch"
  /\ LET r == add_player(nodes[cmd.node], outbox[cmd.node], Player(cmd.player), outcome)
     IN /\ nodes' = [nodes EXCEPT ![cmd.node] =
                       [r.node EXCEPT !.head_id = None]]
        /\ outbox' = [outbox EXCEPT ![cmd.node] = r.sent]
  /\ last' = Op("add_player", cmd.node, cmd.player, outcome)
  /\ writers' = writers \ {Command}
  /\ cmd' = NoCommand
  /\ UNCHANGED <<chan, closed, running, level, pushed, accepted, pure,
                 readers, pc, cur, todo>>

\* The fetch answers (or fails), add_player runs to its end, the route drops
\* the guard.
CmdFinish(outcome) ==
  /\ cmd.pc = "fetch"
  /\ LET r == add_player(nodes[cmd.node], outbox[cmd.node], Player(cmd.player), outcome)
     IN /\ nodes' = [nodes EXCEPT ![cmd.node] = r.node]
        /\ outbox' = [outbox EXCEPT ![cmd.node] = r.sent]
  /\ last' = Op("add_player", cmd.node, cmd.player, outcome)
  /\ writers' = writers \ {Command}
  /\ cmd' = NoCommand
  /\ UNCHANGED <<chan, closed, running, level, pushed, accepted, pure,
                 readers, pc, cur, todo>>

NextLock ==
  \/ \E e \in LockEvents : Push(e)
  \/ Close
  \/ Recv
  \/ RecvClosed
  \/ AcquireWrite
  \/ FoldOne
  \/ Finish
  \/ \E r \in ReadRoutes : ReadAcquire(r)
  \/ \E r \in ReadRoutes : ReadRelease(r)
  \/ \E p \in JoiningPkhs : CmdAcquire("n1:4001", p)
  \/ \E o \in AddPlayerOutcomes : CmdFinish(o)

SpecLock == Init /\ [][NextLock]_vars

\* C12: in every reachable state at most one task holds the write guard, no
\* read guard is held together with a write guard, and no read route holds
\* its guard while the Dispatcher is between the first and the last change
\* of one event (for example with only some ids of a SnapshotConfirmed
\* folded).
C12_ReaderWriterExclusion ==
  /\ Cardinality(writers) <= 1
  /\ writers # {} => readers = {}
  /\ readers \cap ReadRoutes # {} => pc # "locked"

\* C12 witness: the Dispatcher holds the write guard in the middle of a
\* SnapshotConfirmed, t1 folded and t2 still to visit, and no reader is in.
C12_Witness ==
  /\ pc = "locked"
  /\ cur.message.kind = "SnapshotConfirmed"
  /\ todo = <<"t2">>
  /\ nodes["n1:4001"].stats.transactions = 1
  /\ writers = {Dispatcher}
  /\ readers = {}

\* The step is the Dispatcher's, under the write guard, on an event of n.
DispatcherWrites(n) ==
  /\ pc = "locked"
  /\ Dispatcher \in writers
  /\ cur.authority = n
  /\ todo' # todo \/ pc' # pc

\* The step is the end of an add_player command on n.
CommandWrites(n) ==
  /\ cmd.pc = "fetch"
  /\ cmd.node = n
  /\ Command \in writers
  /\ cmd' = NoCommand

\* The pkhs of a roster, in order.
Membership(players) == [i \in 1..Len(players) |-> players[i].pkh]

\* C13 as stated: every change of any node of the registry is made by the
\* Dispatcher while it handles an event.
C13_DispatcherOnlyWriter ==
  [][nodes' # nodes => \E n \in Registered : DispatcherWrites(n)]_vars

\* C13 amended: a node's head_id, counters and pending map, and the
\* baselines of its players, change only in a step of the Dispatcher handling
\* an event of that node; the membership of its roster changes only at the
\* end of an add_player command on that node, which appends the one new
\* player and changes nothing else; the read routes change nothing.
C13_WritersOfNodeState ==
  [][\A n \in Registered :
       /\ (nodes'[n].head_id # nodes[n].head_id \/ nodes'[n].stats # nodes[n].stats)
            => DispatcherWrites(n)
       /\ Membership(nodes'[n].players) # Membership(nodes[n].players)
            => /\ CommandWrites(n)
               /\ nodes'[n].players = Append(nodes[n].players, Player(cmd.player))
       /\ (/\ nodes'[n].players # nodes[n].players
           /\ Membership(nodes'[n].players) = Membership(nodes[n].players))
            => DispatcherWrites(n)]_vars

\* C13 witness: an add_player command has just appended p1 to the roster of
\* a node whose head id the Dispatcher had set before.
C13_Witness ==
  /\ last.op = "add_player" /\ last.res = "Ok"
  /\ nodes[last.authority].players = <<Player("p1")>>
  /\ nodes[last.authority].head_id = Some("h1")
  /\ cmd = NoCommand

C15_StopsOnlyOnClosure ==
  [][(running /\ ~running') => (closed /\ chan = <<>>)]_vars

\* C16: the Dispatcher takes the write guard only after it has dequeued a
\* Received event, dequeues nothing while it holds the guard, has dropped the
\* guard whenever it is back at recv (after a matched node, an ignored kind, a
\* validation error, a missing node) or has stopped, and handles a Send
\* without ever taking the guard.
C16_GuardAcrossOneEvent ==
  [][/\ (Dispatcher \notin writers /\ Dispatcher \in writers')
          => (pc = "write" /\ cur.type = "Received" /\ chan' = chan)
     /\ Dispatcher \in writers => (chan' = chan \/ Len(chan') > Len(chan))
     /\ pc' \in {"recv", "write"} => Dispatcher \notin writers' \cup readers'
     /\ ~running' => Dispatcher \notin writers' \cup readers'
     /\ (/\ pc = "recv" /\ running /\ chan # <<>>
         /\ Head(chan).type = "Send" /\ chan' = Tail(chan))
          => (pc' = "recv" /\ writers' = writers /\ nodes' = nodes)]_vars

\* C16 witness: an event of an unregistered authority went through the guard,
\* the guard is free again and the Dispatcher is back at recv with another
\* event waiting.
C16_Witness ==
  /\ last.op = "dispatch" /\ last.res = "NodeNotFound"
  /\ pc = "recv"
  /\ writers = {}
  /\ chan # <<>>
  /\ running

\* C17: handling a Received event with authority A, whether it succeeds,
\* fails validation or is ignored, leaves every node other than the one keyed
\* by A (head_id, roster, counters, pending map) and every outbox as it was.
C17_EventsIsolatedPerNode ==
  [][\A a \in Registered \cup {Unregistered} :
       (/\ running /\ chan # <<>>
        /\ Head(chan).type = "Received"
        /\ Head(chan).authority = a
        /\ chan' = Tail(chan))
         => /\ \A m \in Registered \ {a} : nodes'[m] = nodes[m]
            /\ outbox' = outbox]_vars

\* C17 witness: a TxValid was accepted on n2 while n1, whose head id had been
\* set by an earlier event, holds nothing pending.
C17_Witness ==
  /\ last.op = "dispatch" /\ last.authority = "n2:4001"
  /\ last.kind = "TxValid" /\ last.res = "Ok"
  /\ DOMAIN nodes["n2:4001"].stats.pending_transactions # {}
  /\ nodes["n1:4001"].head_id = Some("h1")
  /\ nodes["n1:4001"].stats.pending_transactions = <<>>

\* The six cumulative counters of a ledger.
Counters(stats) ==
  <<stats.transactions, stats.bytes, stats.kills, stats.items, stats.secrets,
    stats.play_time>>

\* C18: a TxValid that add_transaction accepts leaves the node's six
\* counters, its head_id and the membership of its roster as they were, puts
\* an entry under its transaction id into the pending map and leaves every
\* other pending entry as it was; and the counters of a node change only in
\* the handling of a SnapshotConfirmed of that node that names a pending id.
C18_TxValidTouchesOnlyPending ==
  [][\A n \in Registered :
       /\ (HandlesReceived(n, "TxValid") /\ last'.res = "Ok")
            => LET id == Head(chan).message.tx.tx_id
                   old == nodes[n].stats.pending_transactions
                   new == nodes'[n].stats.pending_transactions
               IN /\ Counters(nodes'[n].stats) = Counters(nodes[n].stats)
                  /\ nodes'[n].stats.persisted = nodes[n].stats.persisted
                  /\ nodes'[n].head_id = nodes[n].head_id
                  /\ Membership(nodes'[n].players) = Membership(nodes[n].players)
                  /\ DOMAIN new = DOMAIN old \cup {id}
                  /\ new[id].bytes = Head(chan).message.tx.cbor.len
                  /\ \A k \in DOMAIN old \ {id} : new[k] = old[k]
       /\ Counters(nodes'[n].stats) # Counters(nodes[n].stats)
            => /\ HandlesReceived(n, "SnapshotConfirmed")
               /\ \E id \in SeqRange(Head(chan).message.confirmed_transactions) :
                    id \in DOMAIN nodes[n].stats.pending_transactions]_vars

\* C18 witness: a TxValid was accepted on a node that already held a pending
\* entry under another id; both are pending and nothing has been counted.
C18_Witness ==
  /\ last.op = "dispatch" /\ last.kind = "TxValid" /\ last.res = "Ok"
  /\ DOMAIN nodes["n1:4001"].stats.pending_transactions = {"t1", "t2"}
  /\ Counters(nodes["n1:4001"].stats) = <<0, 0, 0, 0, 0, 0>>
  /\ nodes["n1:4001"].head_id # None

\* The ledger after the pending entries under the ids of S have been folded
\* into the counters.
RECURSIVE FoldEntries(_, _)
FoldEntries(stats, S) ==
  IF S = {} THEN stats
  ELSE LET k == CHOOSE x \in S : TRUE
       IN FoldEntries(update_stats(stats, stats.pending_transactions[k]), S \ {k})

\* C19: a TxValid accepted under an id that is already pending replaces the
\* entry: pending keeps one entry for the id, holding the StateUpdate of the
\* later event only; and a SnapshotConfirmed adds to the counters one
\* transaction and the deltas of the entry then pending for each id it names,
\* nothing of an entry that was replaced.
C19_LastWriteWins ==
  [][\A n \in Registered :
       /\ (/\ HandlesReceived(n, "TxValid") /\ last'.res = "Ok"
           /\ Head(chan).message.tx.tx_id \in DOMAIN nodes[n].stats.pending_transactions)
            => LET tx == Head(chan).message.tx
                   gs == CHOOSE g \in TxGameStates(tx.cbor) : TRUE
                   player == nodes[n].players[FindPlayer(nodes[n].players, gs.admin)]
               IN /\ DOMAIN nodes'[n].stats.pending_transactions
                       = DOMAIN nodes[n].stats.pending_transactions
                  /\ nodes'[n].stats.pending_transactions[tx.tx_id]
                       = generate_state_update(player, tx.cbor.len, gs).update
       /\ HandlesReceived(n, "SnapshotConfirmed")
            => LET hit == SeqRange(Head(chan).message.confirmed_transactions)
                            \cap DOMAIN nodes[n].stats.pending_transactions
               IN Counters(nodes'[n].stats) = Counters(FoldEntries(nodes[n].stats, hit))]_vars

\* C19 witness: t1 was accepted at level 1 and again at level 2 and then
\* confirmed: one transaction is counted, with the bytes and the deltas of
\* the second event only.
C19_Witness ==
  /\ last.op = "dispatch" /\ last.kind = "SnapshotConfirmed"
  /\ nodes["n1:4001"].stats.pending_transactions = <<>>
  /\ Counters(nodes["n1:4001"].stats) = <<1, 4, 1, 1, 1, 2>>

\* C20: every ledger starts with nothing counted and nothing pending, and in
\* every step, for every node: `transactions` grows by exactly the number of
\* pending entries the step removes; entries are removed only by the handling
\* of a SnapshotConfirmed of that node that names them; and `transactions`
\* plus the size of pending grows by at most one, and only when a TxValid is
\* accepted on that node. So `transactions` is the number of entries removed
\* by confirmation, `transactions` plus pending is at most the number of
\* accepted TxValid events, and an id confirmed while it is not pending is
\* neither counted nor removed when its TxValid arrives afterwards.
C20_LedgerAccounting ==
  /\ \A n \in Registered :
       /\ nodes[n].stats.transactions = 0
       /\ nodes[n].stats.pending_transactions = <<>>
  /\ [][\A n \in Registered :
          LET old == nodes[n].stats
              new == nodes'[n].stats
              removed == DOMAIN old.pending_transactions \ DOMAIN new.pending_transactions
              size(s) == s.transactions + Cardinality(DOMAIN s.pending_transactions)
          IN /\ new.transactions = old.transactions + Cardinality(removed)
             /\ removed # {}
                  => /\ HandlesReceived(n, "SnapshotConfirmed")
                     /\ removed \subseteq SeqRange(Head(chan).message.confirmed_transactions)
             /\ size(new) <= size(old) + 1
             /\ size(new) > size(old)
                  => (HandlesReceived(n, "TxValid") /\ last'.res = "Ok")]_vars

\* C20 witness: t2 was accepted and then confirmed by a snapshot that also
\* named t1, which was not pending; t1's TxValid was accepted afterwards and
\* is pending, and one transaction is counted for two accepted.
C20_Witness ==
  /\ last.op = "dispatch" /\ last.kind = "TxValid" /\ last.res = "Ok"
  /\ accepted["n1:4001"] = {"t1", "t2"}
  /\ DOMAIN nodes["n1:4001"].stats.pending_transactions = {"t1"}
  /\ nodes["n1:4001"].stats.transactions = 1

\* ==================================================== Dispatcher progress
\* The events pushed while progress is watched; the last is a TxValid whose
\* transaction pays to a Byron address.
ProgressEvents ==
  { Received(HeadIsOpen("h1"), "n1:4001"),
    Received(SnapshotConfirmed(<<"t1", "t2">>), "n1:4001"),
    Received(HeadIsOpen("h1"), Unregistered),
    SendData,
    Received(TxValidMsg(TxValid("t2",
               Cbor(TRUE, TRUE, <<Output("PostAlonzo", "byron", NoDatum)>>, 2))),
             "n1:4001") }

\* A read() that arrives while the Dispatcher's write() waits queues behind
\* it: the lock serves its waiters first-in first-out, so readers cannot
\* starve the writer.
ReadAcquireQueued(r) == pc # "write" /\ ReadAcquire(r)

NextProgress ==
  \/ \E e \in ProgressEvents : Push(e)
  \/ Close
  \/ Recv
  \/ RecvClosed
  \/ AcquireWrite
  \/ FoldOne
  \/ Finish
  \/ \E r \in ReadRoutes : ReadAcquireQueued(r)
  \/ \E r \in ReadRoutes : ReadRelease(r)
  \/ \E p \in JoiningPkhs : CmdAcquire("n1:4001", p)
  \/ \E o \in AddPlayerOutcomes : CmdFinish(o)

\* The spawned update task is scheduled whenever it can run; a waiting
\* write() is served once the guards before it are dropped (the lock queues
\* its waiters first-in first-out); every route that holds a guard comes to
\* its end and drops it.
SpecProgress ==
  /\ Init
  /\ [][NextProgress]_vars
  /\ WF_vars(Recv)
  /\ WF_vars(RecvClosed)
  /\ SF_vars(AcquireWrite)
  /\ WF_vars(FoldOne)
  /\ WF_vars(Finish)
  /\ \A r \in ReadRoutes : WF_vars(ReadRelease(r))
  /\ WF_vars(\E o \in AddPlayerOutcomes : CmdFinish(o))

\* C21: whenever an event waits in the channel or is in the Dispatcher's
\* hands, the Dispatcher eventually has handled every event pushed so far and
\* is back at recv with an empty channel.
C21_EveryEventHandled ==
  (chan # <<>> \/ pc # "recv") ~> (chan = <<>> /\ pc = "recv")

====
